---- MODULE Spec2Model ----
(***************************************************************************)
(* A model of server/prompt.go: the template renderer (isResponseNode,     *)
(* formatTemplateForResponse, Prompt), the token estimator (countTokens)   *)
(* and the conversation packer (ChatPrompt).                               *)
(*                                                                         *)
(* Strings are TLA+ strings; a parsed template is a sequence of nodes of   *)
(* the shapes text/template/parse produces (Text, Action, If).  ChatPrompt *)
(* is a state machine with one action per loop iteration or return.        *)
(***************************************************************************)
EXTENDS Integers, Sequences, FiniteSets, TLC

\* ------------------------------------------------------------------ bounds

\* longest message list given to ChatPrompt
MaxMsgs == 2
\* most images attached to one message
MaxImgs == 2
\* largest small non-negative window tried (0..MaxWindow)
MaxWindow == 1
\* calls of Prompt in a row, when Prompt is taken step by step
MaxCalls == 3

\* ------------------------------------------------------- program constants

\* tokens estimated for one image
ImageTokens == 768

\* -------------------------------------------------- template parse trees

TextNode(s) ==
    [type |-> "Text", Text |-> s, Cmds |-> <<>>, List |-> <<>>]

FieldNode(ident) ==
    [type |-> "Field", Ident |-> ident]

IdentifierNode(name) ==
    [type |-> "Identifier", Ident |-> <<name>>]

NumberNode(n) ==
    [type |-> "Number", Ident |-> <<>>, Int |-> n]

\* an action node {{ pipeline }}: Cmds is the pipeline's commands, each a
\* sequence of arguments
ActionNode(cmds) ==
    [type |-> "Action", Text |-> "", Cmds |-> cmds, List |-> <<>>]

\* {{ if pipeline }} list {{ end }}
IfNode(cmds, list) ==
    [type |-> "If", Text |-> "", Cmds |-> cmds, List |-> list]

\* {{ .Name }}
Field(name) ==
    ActionNode(<< <<FieldNode(<<name>>)>> >>)

\* the templates the model tries, by name
TemplateNames == {"full", "noresp", "nested", "multi", "unclosed", "slice"}

\* template.New("").Option("missingkey=zero").Parse(tmpl): a fresh tree for
\* every call
Parse(tmpl) ==
    CASE tmpl = "full" ->
           \* S:{{ .System }} U:{{ .Prompt }} A:{{ .Response }};
           << TextNode("S:"), Field("System"), TextNode(" U:"), Field("Prompt"),
              TextNode(" A:"), Field("Response"), TextNode(";") >>
      [] tmpl = "noresp" ->
           \* {{ .System }}|{{ .Prompt }}|
           << Field("System"), TextNode("|"), Field("Prompt"), TextNode("|") >>
      [] tmpl = "nested" ->
           \* {{ if .System }}S:{{ .System }}{{ end }}{{ .Prompt }}{{ if .Response }}{{ .Response }}.{{ end }}
           << IfNode(<< <<FieldNode(<<"System">>)>> >>,
                     << TextNode("S:"), Field("System") >>),
              Field("Prompt"),
              IfNode(<< <<FieldNode(<<"Response">>)>> >>,
                     << Field("Response"), TextNode(".") >>) >>
      [] tmpl = "multi" ->
           \* {{ .Prompt }}{{ print .System .Response }}+{{ .Response | print }}!
           << Field("Prompt"),
              ActionNode(<< <<IdentifierNode("print"), FieldNode(<<"System">>),
                              FieldNode(<<"Response">>)>> >>),
              TextNode("+"),
              ActionNode(<< <<FieldNode(<<"Response">>)>>,
                            <<IdentifierNode("print")>> >>),
              TextNode("!") >>
      [] tmpl = "unclosed" ->
           \* {{ .System : no tree, Parse returns an error (ParseError)
           << >>
      [] tmpl = "slice" ->
           \* {{ if .System }}{{ slice .Prompt 1 }}{{ end }}{{ .Response }}
           << IfNode(<< <<FieldNode(<<"System">>)>> >>,
                     << ActionNode(<< <<IdentifierNode("slice"),
                                        FieldNode(<<"Prompt">>),
                                        NumberNode(1)>> >>) >>),
              Field("Response") >>

\* err of line 56: the template does not parse
ParseError(tmpl) ==
    IF tmpl = "unclosed" THEN "template: unclosed action" ELSE ""

\* ---------------------------------------------------------- isResponseNode

isResponseNode(node) ==
    \E c \in DOMAIN node.Cmds :
        \E a \in DOMAIN node.Cmds[c] :
            /\ node.Cmds[c][a].type = "Field"
            /\ Len(node.Cmds[c][a].Ident) > 0
            /\ node.Cmds[c][a].Ident[1] = "Response"

\* ----------------------------------------------- formatTemplateForResponse

\* the top-level positions the scan marks as found
ResponsePositions(nodes) ==
    {i \in DOMAIN nodes : nodes[i].type = "Action" /\ isResponseNode(nodes[i])}

Min(S) ==
    CHOOSE x \in S : \A y \in S : x <= y

\* the node lines 48-50 build
responseActionNode ==
    ActionNode(<< <<FieldNode(<<"Response">>)>> >>)

\* variant: lines 46-52 left out
FormatNeverAppends(nodes, cut) ==
    LET found == ResponsePositions(nodes) # {}
    IN  IF found /\ cut
        THEN SubSeq(nodes, 1, Min(ResponsePositions(nodes)))
        ELSE nodes

\* the tree after formatTemplateForResponse(tmpl, cut)
formatTemplateForResponse(nodes, cut) ==
    LET found == ResponsePositions(nodes) # {}
        kept  == IF found /\ cut
                 THEN SubSeq(nodes, 1, Min(ResponsePositions(nodes)))
                 ELSE nodes
    IN  IF ~found THEN Append(kept, responseActionNode) ELSE kept

\* ------------------------------------------------------ template execution

\* vars of lines 63-67
Vars(system, prompt, response) ==
    [System |-> system, Prompt |-> prompt, Response |-> response]

\* a field of the map; a key the map lacks prints as <no value>
EvalArg(arg, vars) ==
    IF arg.type = "Field" /\ Len(arg.Ident) = 1 /\ arg.Ident[1] \in DOMAIN vars
    THEN vars[arg.Ident[1]]
    ELSE "<no value>"

RECURSIVE ConcatArgs(_, _, _)
\* print: its operands, all strings here, one after the other
ConcatArgs(args, from, vars) ==
    IF from > Len(args) THEN ""
    ELSE EvalArg(args[from], vars) \o ConcatArgs(args, from + 1, vars)

\* one command of a pipeline; piped is the previous command's value, passed
\* as the last operand of a function call
EvalCmd(cmd, vars, piped) ==
    IF cmd[1].type = "Identifier"
    THEN IF cmd[1].Ident[1] = "slice"
         THEN \* slice s i is s[i:]
              SubSeq(EvalArg(cmd[2], vars), cmd[3].Int + 1, Len(EvalArg(cmd[2], vars)))
         ELSE ConcatArgs(cmd, 2, vars) \o piped
    ELSE EvalArg(cmd[1], vars)

RECURSIVE EvalPipe(_, _, _, _)
EvalPipe(cmds, k, vars, piped) ==
    IF k > Len(cmds) THEN piped
    ELSE EvalPipe(cmds, k + 1, vars, EvalCmd(cmds[k], vars, piped))

RECURSIVE ExecList(_, _, _)
\* the text a list of nodes writes
ExecList(nodes, k, vars) ==
    IF k > Len(nodes) THEN ""
    ELSE LET n == nodes[k]
             out == CASE n.type = "Text" -> n.Text
                      [] n.type = "Action" -> EvalPipe(n.Cmds, 1, vars, "")
                      [] n.type = "If" ->
                           IF EvalPipe(n.Cmds, 1, vars, "") # ""
                           THEN ExecList(n.List, 1, vars)
                           ELSE ""
         IN  out \o ExecList(nodes, k + 1, vars)

Execute(nodes, vars) ==
    ExecList(nodes, 1, vars)

\* slice s i with i beyond the end of s: the call of slice fails
SliceOutOfRange(node, vars) ==
    \E c \in DOMAIN node.Cmds :
        /\ node.Cmds[c][1].type = "Identifier"
        /\ node.Cmds[c][1].Ident[1] = "slice"
        /\ node.Cmds[c][3].Int > Len(EvalArg(node.Cmds[c][2], vars))

\* err of line 70: a node that is executed calls slice out of range
ExecuteError(nodes, vars) ==
    IF \E k \in DOMAIN nodes :
           \/ SliceOutOfRange(nodes[k], vars)
           \/ /\ nodes[k].type = "If"
              /\ EvalPipe(nodes[k].Cmds, 1, vars, "") # ""
              /\ \E i \in DOMAIN nodes[k].List : SliceOutOfRange(nodes[k].List[i], vars)
    THEN "template: error calling slice: index out of range"
    ELSE ""

\* ------------------------------------------------------------------ Prompt

\* the tree Prompt executes
PromptTree(tmpl, cut) ==
    formatTemplateForResponse(Parse(tmpl), cut)

Prompt(tmpl, system, prompt, response, cut) ==
    Execute(PromptTree(tmpl, cut), Vars(system, prompt, response))

\* variant: the errors of lines 57-59 and 70-72 are dropped
PromptErrorDropped(tmpl, system, prompt, response, cut) ==
    ""

\* the error Prompt returns, "" for nil (lines 57-59 and 70-72)
PromptError(tmpl, system, prompt, response, cut) ==
    IF ParseError(tmpl) # "" THEN ParseError(tmpl)
    ELSE ExecuteError(PromptTree(tmpl, cut), Vars(system, prompt, response))

\* ------------------------------------------------------------- countTokens

\* the encoders the model tries: len(encode(text)) is the number of
\* characters, or one token for any text that is not empty
Encoders == {"chars", "unit"}

\* len(tokens) of lines 83-89
EncodeLen(encode, text) ==
    IF encode = "chars" THEN Len(text)
    ELSE IF text = "" THEN 0 ELSE 1

countTokens(tmpl, system, prompt, response, encode) ==
    EncodeLen(encode, Prompt(tmpl, system, prompt, response, FALSE))

\* -------------------------------------------------------------- ChatPrompt

VARIABLES
    tmpl,          \* argument: the template
    system,        \* argument: the system prompt handed in by the caller
    messages,      \* argument: the messages
    window,        \* argument: the context window
    encode,        \* argument: the encoder
    loadedSystem,  \* loaded.Model.System, the package-level loaded model
    pc,            \* where ChatPrompt is
    p,             \* var p prompt (line 109)
    prompts,       \* var prompts []prompt (line 107)
    images,        \* var images int (line 116)
    mi,            \* index of the next message of the loop of line 117
    ei,            \* index of the next prompt of the loop of line 163
    rp,            \* the loop variable p of line 163, a copy of prompts[ei]
    ri,            \* index of the next prompt of the loop of line 221
    sb,            \* var sb strings.Builder (line 220)
    ret,           \* what ChatPrompt returned
    segmented,     \* history: prompts as segmentation left them
    removed,       \* history: the prompts truncation removed, in order
    call,          \* history: the latest call of Prompt, and how many were made
    calls,         \* history: the calls of Prompt that returned, Prompt taken alone
    iters          \* history: iterations of the loop of line 175 so far

vars == << tmpl, system, messages, window, encode, loadedSystem, pc, p, prompts,
           images, mi, ei, rp, ri, sb, ret, segmented, removed, call, calls, iters >>

\* the zero value prompt{}
ZeroPrompt ==
    [System |-> "", system |-> FALSE, Prompt |-> "", prompt |-> FALSE,
     Response |-> "", response |-> FALSE, Images |-> <<>>, tokens |-> 0]

\* strings.ToLower on the roles tried
ToLower(role) ==
    CASE role = "User" -> "user"
      [] role = "SYSTEM" -> "system"
      [] OTHER -> role

\* fmt.Sprintf(" [img-%d]", n)
Placeholder(n) ==
    " [img-" \o ToString(n) \o "]"

\* image payloads of lengths 0..MaxImgs
ImageLists ==
    {[i \in 1..n |-> "d"] : n \in 0..MaxImgs}

\* the messages tried at position i: the content names its position
MessagesAt(i) ==
    LET k == ToString(i)
    IN       {[Role |-> "system", Content |-> c, Images |-> <<>>] : c \in {"", "s" \o k}}
        \cup {[Role |-> "user", Content |-> "u" \o k, Images |-> im] : im \in ImageLists}
        \cup {[Role |-> "assistant", Content |-> "a" \o k, Images |-> im] :
                 im \in {<<>>, <<"d">>}}
        \cup {[Role |-> "User", Content |-> "U" \o k, Images |-> <<>>],
              [Role |-> "moderator", Content |-> "m" \o k, Images |-> <<>>]}

MessageLists ==
    UNION {{ms \in [1..n -> UNION {MessagesAt(i) : i \in 1..n}] :
               \A i \in 1..n : ms[i] \in MessagesAt(i)} : n \in 0..MaxMsgs}

\* window is an int: small windows, windows that hold an image, and
\* negative ones
Windows ==
    (0..MaxWindow) \cup {ImageTokens + MaxWindow} \cup {-1, -(ImageTokens * MaxImgs) - 1}

NoCall ==
    [n |-> 0, cut |-> FALSE, system |-> "", prompt |-> "", response |-> "",
     nodes |-> <<>>, out |-> ""]

\* Prompt(tmpl, sys, pr, resp, cut) is called: the tree it executes and
\* the text it returns
Called(sys, pr, resp, cut) ==
    [n |-> call.n + 1, cut |-> cut, system |-> sys, prompt |-> pr, response |-> resp,
     nodes |-> PromptTree(tmpl, cut), out |-> Prompt(tmpl, sys, pr, resp, cut)]

Init ==
    /\ tmpl \in TemplateNames
    /\ system = "arg"
    /\ messages \in MessageLists
    /\ window \in Windows
    /\ encode \in Encoders
    /\ loadedSystem \in {"", "base"}
    /\ pc = "start"
    /\ p = ZeroPrompt
    /\ prompts = <<>>
    /\ images = 0
    /\ mi = 1
    /\ ei = 1
    /\ rp = ZeroPrompt
    /\ ri = 1
    /\ sb = ""
    /\ ret = [text |-> "", err |-> ""]
    /\ segmented = <<>>
    /\ removed = <<>>
    /\ call = NoCall
    /\ calls = {}
    /\ iters = 0

args == << tmpl, system, messages, window, encode, loadedSystem >>

\* variant: line 113 left out
SeedSystemFlagUnset(sys) ==
    [ZeroPrompt EXCEPT !.System = sys]

\* lines 109-113
SeedPrompt(sys) ==
    [ZeroPrompt EXCEPT !.System = sys, !.system = TRUE]

Begin ==
    /\ pc = "start"
    /\ p' = SeedPrompt(loadedSystem)
    /\ pc' = "segment"
    /\ UNCHANGED << args, prompts, images, mi, ei, rp, ri, sb, ret, segmented,
                    removed, call, calls, iters >>

\* loaded.Model.System is set by whoever loads a model; ChatPrompt reads it
\* once, at line 112, so a load before that read is the one that shows
LoadModel ==
    /\ pc = "start"
    /\ loadedSystem' \in {"", "base"} \ {loadedSystem}
    /\ UNCHANGED << tmpl, system, messages, window, encode, pc, p, prompts, images,
                    mi, ei, rp, ri, sb, ret, segmented, removed, call, calls, iters >>

InLoop ==
    pc = "segment" /\ mi <= Len(messages)

\* case "system", lines 119-126
SystemFlush(q) ==
    q.system \/ q.prompt \/ q.response

SegmentSystem ==
    /\ InLoop
    /\ ToLower(messages[mi].Role) = "system"
    /\ LET flush == SystemFlush(p)
           q == IF flush THEN ZeroPrompt ELSE p
       IN  /\ prompts' = IF flush THEN Append(prompts, p) ELSE prompts
           /\ p' = [q EXCEPT !.System = messages[mi].Content, !.system = TRUE]
    /\ mi' = mi + 1
    /\ UNCHANGED << args, pc, images, ei, rp, ri, sb, ret, segmented, removed, call, calls, iters >>

RECURSIVE AddImages(_, _, _, _)
\* the loop of lines 136-143 from image i on: q is p, n is images
AddImages(q, imgs, i, n) ==
    IF i > Len(imgs) THEN q
    ELSE AddImages([q EXCEPT !.Prompt = @ \o Placeholder(n),
                             !.Images = Append(@, [ID |-> n, Data |-> imgs[i]])],
                   imgs, i + 1, n + 1)

\* variant: line 142 left out, the counter never advances
ImagesAfterStuck(n, imgs) ==
    n

\* images after the loop of lines 136-143 (line 142)
ImagesAfter(n, imgs) ==
    n + Len(imgs)

\* variant: the condition of line 128 without p.response
UserFlushPromptOnly(q) ==
    q.prompt

\* case "user", lines 127-143
UserFlush(q) ==
    q.prompt \/ q.response

SegmentUser ==
    /\ InLoop
    /\ ToLower(messages[mi].Role) = "user"
    /\ LET flush == UserFlush(p)
           q == IF flush THEN ZeroPrompt ELSE p
           r == [q EXCEPT !.Prompt = messages[mi].Content, !.prompt = TRUE]
       IN  /\ prompts' = IF flush THEN Append(prompts, p) ELSE prompts
           /\ p' = AddImages(r, messages[mi].Images, 1, images)
    /\ images' = ImagesAfter(images, messages[mi].Images)
    /\ mi' = mi + 1
    /\ UNCHANGED << args, pc, ei, rp, ri, sb, ret, segmented, removed, call, calls, iters >>

\* case "assistant", lines 144-151
SegmentAssistant ==
    /\ InLoop
    /\ ToLower(messages[mi].Role) = "assistant"
    /\ LET flush == p.response
           q == IF flush THEN ZeroPrompt ELSE p
       IN  /\ prompts' = IF flush THEN Append(prompts, p) ELSE prompts
           /\ p' = [q EXCEPT !.Response = messages[mi].Content, !.response = TRUE]
    /\ mi' = mi + 1
    /\ UNCHANGED << args, pc, images, ei, rp, ri, sb, ret, segmented, removed, call, calls, iters >>

\* variant: the message is skipped and the loop goes on
InvalidRoleSkipped ==
    /\ InLoop
    /\ ToLower(messages[mi].Role) \notin {"system", "user", "assistant"}
    /\ mi' = mi + 1
    /\ UNCHANGED << args, pc, p, prompts, images, ei, rp, ri, sb, ret, segmented,
                    removed, call, calls, iters >>

\* default, lines 152-153
InvalidRole ==
    /\ InLoop
    /\ ToLower(messages[mi].Role) \notin {"system", "user", "assistant"}
    /\ ret' = [text |-> "", err |-> "invalid role: " \o messages[mi].Role]
    /\ pc' = "done"
    /\ UNCHANGED << args, p, prompts, images, mi, ei, rp, ri, sb, segmented,
                    removed, call, calls, iters >>

\* lines 157-160
AddFinal ==
    /\ pc = "segment"
    /\ mi > Len(messages)
    /\ prompts' = IF p.system \/ p.prompt \/ p.response
                  THEN Append(prompts, p) ELSE prompts
    /\ segmented' = prompts'
    /\ ei' = 1
    /\ pc' = "estimate"
    /\ UNCHANGED << args, p, images, mi, rp, ri, sb, ret, removed, call, calls, iters >>

\* the cost of a prompt as lines 164-169 and 207-212 compute it
Cost(q) ==
    countTokens(tmpl, q.System, q.Prompt, q.Response, encode)
        + Len(q.Images) * ImageTokens

\* return "", err
Failed(err) ==
    [text |-> "", err |-> err]

\* the error of the Prompt call countTokens makes for q (line 78)
CostError(q) ==
    PromptError(tmpl, q.System, q.Prompt, q.Response, FALSE)

\* one iteration of the loop of lines 163-170: p is a copy of prompts[ei],
\* and the assignment of line 169 is to the copy; an error of Prompt is
\* returned (lines 165-167)
Estimate ==
    /\ pc = "estimate"
    /\ ei <= Len(prompts)
    /\ IF CostError(prompts[ei]) # ""
       THEN /\ ret' = Failed(CostError(prompts[ei]))
            /\ pc' = "done"
            /\ UNCHANGED << rp, ei, call >>
       ELSE /\ rp' = [prompts[ei] EXCEPT !.tokens = Cost(prompts[ei])]
            /\ call' = Called(prompts[ei].System, prompts[ei].Prompt,
                              prompts[ei].Response, FALSE)
            /\ ei' = ei + 1
            /\ UNCHANGED << pc, ret >>
    /\ UNCHANGED << args, p, prompts, images, mi, ri, sb, segmented, removed, calls, iters >>

\* encode, which may fail on any text, fails in countTokens (lines 83-87)
\* and the error is returned (lines 165-167)
EstimateEncodeError ==
    /\ pc = "estimate"
    /\ ei <= Len(prompts)
    /\ CostError(prompts[ei]) = ""
    /\ call' = Called(prompts[ei].System, prompts[ei].Prompt, prompts[ei].Response, FALSE)
    /\ ret' = Failed("encode")
    /\ pc' = "done"
    /\ UNCHANGED << args, p, prompts, images, mi, ei, rp, ri, sb, segmented,
                    removed, calls, iters >>

EstimateDone ==
    /\ pc = "estimate"
    /\ ei > Len(prompts)
    /\ pc' = "truncate"
    /\ UNCHANGED << args, p, prompts, images, mi, ei, rp, ri, sb, ret, segmented,
                    removed, call, calls, iters >>

RECURSIVE SumTokens(_, _)
\* lines 177-180
SumTokens(ps, k) ==
    IF k > Len(ps) THEN 0 ELSE ps[k].tokens + SumTokens(ps, k + 1)

total ==
    SumTokens(prompts, 1)

\* variant: < for <=
FitsStrict(t, w) ==
    t < w

\* line 182
Fits(t, w) ==
    t <= w

\* lines 182-184
TruncateFits ==
    /\ pc = "truncate"
    /\ Fits(total, window)
    /\ pc' = "render"
    /\ UNCHANGED << args, p, prompts, images, mi, ei, rp, ri, sb, ret, segmented,
                    removed, call, calls >>
    /\ iters' = iters + 1

\* variant: the newest image is dropped
DropNewestImage(imgs) ==
    SubSeq(imgs, 1, Len(imgs) - 1)

\* line 190: Images[1:]
DropImage(imgs) ==
    Tail(imgs)

\* lines 186-192
RemoveImage ==
    /\ pc = "truncate"
    /\ ~Fits(total, window)
    /\ Len(prompts[1].Images) > 1
    /\ prompts' = [prompts EXCEPT ![1].Images = DropImage(@),
                                  ![1].tokens = @ - ImageTokens]
    /\ UNCHANGED << args, pc, p, images, mi, ei, rp, ri, sb, ret, segmented,
                    removed, call, calls >>
    /\ iters' = iters + 1

\* line 194 is reached with more than one prompt
CanRemovePrompt ==
    /\ pc = "truncate"
    /\ ~Fits(total, window)
    /\ Len(prompts[1].Images) <= 1
    /\ Len(prompts) > 1

\* variant: line 197 left out, the loop goes on with the same prompts
RemovePromptContinueStuck ==
    /\ CanRemovePrompt
    /\ prompts[1].System = ""
    /\ iters' = iters + 1
    /\ UNCHANGED << args, pc, p, prompts, images, mi, ei, rp, ri, sb, ret, segmented,
                    removed, call, calls >>

\* lines 196-201: the removed prompt had no system prompt
RemovePromptContinue ==
    /\ CanRemovePrompt
    /\ prompts[1].System = ""
    /\ prompts' = Tail(prompts)
    /\ removed' = Append(removed, prompts[1])
    /\ UNCHANGED << args, pc, p, images, mi, ei, rp, ri, sb, ret, segmented, call, calls >>
    /\ iters' = iters + 1

\* variant: line 205 left out
CarryNothing(q, sys) ==
    q

\* line 205
CarrySystem(q, sys) ==
    [q EXCEPT !.System = sys]

\* lines 204-213 and 217: the system prompt is brought along; an error of
\* Prompt is returned (lines 208-210)
RemovePromptCarry ==
    /\ CanRemovePrompt
    /\ prompts[1].System # ""
    /\ prompts[2].System = ""
    /\ LET q == CarrySystem(prompts[2], prompts[1].System)
       IN  IF CostError(q) # ""
           THEN /\ prompts' = [Tail(prompts) EXCEPT ![1] = q]
                /\ ret' = Failed(CostError(q))
                /\ pc' = "done"
                /\ UNCHANGED call
           ELSE /\ prompts' = [Tail(prompts) EXCEPT ![1] = [q EXCEPT !.tokens = Cost(q)]]
                /\ call' = Called(q.System, q.Prompt, q.Response, FALSE)
                /\ pc' = "render"
                /\ UNCHANGED ret
    /\ removed' = Append(removed, prompts[1])
    /\ iters' = iters + 1
    /\ UNCHANGED << args, p, images, mi, ei, rp, ri, sb, segmented, calls >>

\* encode fails in the countTokens of line 207 and the error is returned
\* (lines 208-210)
RemovePromptCarryEncodeError ==
    /\ CanRemovePrompt
    /\ prompts[1].System # ""
    /\ prompts[2].System = ""
    /\ LET q == CarrySystem(prompts[2], prompts[1].System)
       IN  /\ CostError(q) = ""
           /\ prompts' = [Tail(prompts) EXCEPT ![1] = q]
           /\ call' = Called(q.System, q.Prompt, q.Response, FALSE)
    /\ removed' = Append(removed, prompts[1])
    /\ iters' = iters + 1
    /\ ret' = Failed("encode")
    /\ pc' = "done"
    /\ UNCHANGED << args, p, images, mi, ei, rp, ri, sb, segmented, calls >>

\* variant: the loop goes on after the removal
RemovePromptStopContinues ==
    /\ CanRemovePrompt
    /\ prompts[1].System # ""
    /\ prompts[2].System # ""
    /\ prompts' = Tail(prompts)
    /\ removed' = Append(removed, prompts[1])
    /\ UNCHANGED << args, pc, p, images, mi, ei, rp, ri, sb, ret, segmented, call, calls >>
    /\ iters' = iters + 1

\* lines 204 and 217: the next prompt has a system prompt of its own
RemovePromptStop ==
    /\ CanRemovePrompt
    /\ prompts[1].System # ""
    /\ prompts[2].System # ""
    /\ prompts' = Tail(prompts)
    /\ removed' = Append(removed, prompts[1])
    /\ pc' = "render"
    /\ UNCHANGED << args, p, images, mi, ei, rp, ri, sb, ret, segmented, call, calls >>
    /\ iters' = iters + 1

\* lines 194 and 217: one prompt is left
GiveUp ==
    /\ pc = "truncate"
    /\ ~Fits(total, window)
    /\ Len(prompts[1].Images) <= 1
    /\ Len(prompts) <= 1
    /\ pc' = "render"
    /\ UNCHANGED << args, p, prompts, images, mi, ei, rp, ri, sb, ret, segmented,
                    removed, call, calls >>
    /\ iters' = iters + 1

\* the flag line 222 passes to Prompt
RenderCut ==
    TRUE

\* one iteration of the loop of lines 221-227; an error of Prompt is
\* returned (lines 223-225)
Render ==
    /\ pc = "render"
    /\ ri <= Len(prompts)
    /\ IF PromptError(tmpl, prompts[ri].System, prompts[ri].Prompt,
                      prompts[ri].Response, RenderCut) # ""
       THEN /\ ret' = Failed(PromptError(tmpl, prompts[ri].System, prompts[ri].Prompt,
                                         prompts[ri].Response, RenderCut))
            /\ pc' = "done"
            /\ UNCHANGED << call, sb, ri >>
       ELSE /\ call' = Called(prompts[ri].System, prompts[ri].Prompt,
                              prompts[ri].Response, RenderCut)
            /\ sb' = sb \o call'.out
            /\ ri' = ri + 1
            /\ UNCHANGED << pc, ret >>
    /\ UNCHANGED << args, p, prompts, images, mi, ei, rp, segmented, removed, calls, iters >>

\* line 229
Return ==
    /\ pc = "render"
    /\ ri > Len(prompts)
    /\ ret' = [text |-> sb, err |-> ""]
    /\ pc' = "done"
    /\ UNCHANGED << args, p, prompts, images, mi, ei, rp, ri, sb, segmented,
                    removed, call, calls, iters >>

\* the steps of ChatPrompt
Step ==
    \/ Begin
    \/ SegmentSystem
    \/ SegmentUser
    \/ SegmentAssistant
    \/ InvalidRole
    \/ AddFinal
    \/ Estimate
    \/ EstimateEncodeError
    \/ EstimateDone
    \/ TruncateFits
    \/ RemoveImage
    \/ RemovePromptContinue
    \/ RemovePromptCarry
    \/ RemovePromptCarryEncodeError
    \/ RemovePromptStop
    \/ GiveUp
    \/ Render
    \/ Return

Next ==
    \/ Step
    \/ LoadModel

Spec == Init /\ [][Next]_vars

\* ------------------------------------------- Prompt, one call after another

\* the texts Prompt is called with
Texts(c) ==
    {"", c}

\* the variables of ChatPrompt, which calls of Prompt alone leave as they are
chat == << system, messages, window, encode, loadedSystem, p, prompts, images,
           mi, ei, rp, ri, sb, segmented, removed, iters >>

RenderInit ==
    /\ tmpl \in TemplateNames
    /\ system = ""
    /\ messages = << >>
    /\ window = 0
    /\ encode = "chars"
    /\ loadedSystem = ""
    /\ pc = "idle"
    /\ p = ZeroPrompt
    /\ prompts = << >>
    /\ images = 0
    /\ mi = 1
    /\ ei = 1
    /\ rp = ZeroPrompt
    /\ ri = 1
    /\ sb = ""
    /\ ret = [text |-> "", err |-> ""]
    /\ segmented = << >>
    /\ removed = << >>
    /\ call = NoCall
    /\ calls = {}
    /\ iters = 0

\* the call that begins: its arguments, and the tree of line 56
Entered(sys, pr, resp, cut, nodes) ==
    [n |-> call.n + 1, cut |-> cut, system |-> sys, prompt |-> pr, response |-> resp,
     nodes |-> nodes, out |-> ""]

\* variant: the tree is compiled once and every later call works on it
PromptParseShared ==
    /\ pc = "idle"
    /\ call.n < MaxCalls
    /\ ParseError(tmpl) = ""
    /\ \E sys \in Texts("s"), pr \in Texts("u"), resp \in Texts("a"), cut \in BOOLEAN :
           call' = Entered(sys, pr, resp, cut,
                           IF call.n = 0 THEN Parse(tmpl) ELSE call.nodes)
    /\ pc' = "format"
    /\ UNCHANGED << tmpl, chat, ret, calls >>

\* line 56: a call of Prompt parses tmpl into a tree of its own
PromptParse ==
    /\ pc = "idle"
    /\ call.n < MaxCalls
    /\ ParseError(tmpl) = ""
    /\ \E sys \in Texts("s"), pr \in Texts("u"), resp \in Texts("a"), cut \in BOOLEAN :
           call' = Entered(sys, pr, resp, cut, Parse(tmpl))
    /\ pc' = "format"
    /\ UNCHANGED << tmpl, chat, ret, calls >>

\* lines 57-59: tmpl does not parse and the call returns the error
PromptParseFails ==
    /\ pc = "idle"
    /\ call.n < MaxCalls
    /\ ParseError(tmpl) # ""
    /\ \E sys \in Texts("s"), pr \in Texts("u"), resp \in Texts("a"), cut \in BOOLEAN :
           call' = Entered(sys, pr, resp, cut, << >>)
    /\ calls' = calls \cup {call'}
    /\ ret' = Failed(ParseError(tmpl))
    /\ UNCHANGED << tmpl, chat, pc >>

\* line 61: the tree of the call is rewritten
PromptFormat ==
    /\ pc = "format"
    /\ call' = [call EXCEPT !.nodes = formatTemplateForResponse(@, call.cut)]
    /\ pc' = "execute"
    /\ UNCHANGED << tmpl, chat, ret, calls >>

\* lines 63-74: the tree is executed and the text or the error returned
PromptExecute ==
    /\ pc = "execute"
    /\ LET vs == Vars(call.system, call.prompt, call.response)
       IN  IF ExecuteError(call.nodes, vs) # ""
           THEN /\ call' = call
                /\ ret' = Failed(ExecuteError(call.nodes, vs))
           ELSE /\ call' = [call EXCEPT !.out = Execute(call.nodes, vs)]
                /\ ret' = [text |-> call'.out, err |-> ""]
    /\ calls' = calls \cup {call'}
    /\ pc' = "idle"
    /\ UNCHANGED << tmpl, chat >>

RenderNext ==
    \/ PromptParse
    \/ PromptParseFails
    \/ PromptFormat
    \/ PromptExecute

\* calls of Prompt with any arguments, in any order
RenderSpec == RenderInit /\ [][RenderNext]_vars

\* ------------------------------------------------------------ properties

Last(seq) ==
    seq[Len(seq)]

RECURSIVE SumCost(_, _)
\* the sum over ps of (estimated tokens + 768 per image held)
SumCost(ps, k) ==
    IF k > Len(ps) THEN 0 ELSE Cost(ps[k]) + SumCost(ps, k + 1)

RECURSIVE ConcatRender(_, _)
\* render(turn, cutAfterMarker = true) of every turn of ps, one after the
\* other
ConcatRender(ps, k) ==
    IF k > Len(ps) THEN ""
    ELSE Prompt(tmpl, ps[k].System, ps[k].Prompt, ps[k].Response, TRUE)
             \o ConcatRender(ps, k + 1)

\* the truncation loop has been left, with no error
TruncationOver ==
    pc = "render" \/ (pc = "done" /\ ret.err = "")

\* ChatPrompt returned a text
Returned ==
    pc = "done" /\ ret.err = ""

\* C1: for a window >= 0, when truncation has finished the surviving turns
\* fit the window (sum of estimated tokens + 768 per image <= window), or
\* one turn survives, or the last turn removed had a non-empty instruction.
C1_FitsOneTurnOrInstructionRemoved ==
    (TruncationOver /\ window >= 0) =>
        \/ SumCost(prompts, 1) <= window
        \/ Len(prompts) = 1
        \/ (removed # <<>> /\ Last(removed).System # "")

\* C2: the turn list is non-empty after segmentation and in every state of
\* the truncation loop, and a returned text covers at least one rendered
\* turn, for every message list and every window.
C2_NeverZeroTurns ==
    /\ (pc \in {"estimate", "truncate", "render"} \/ Returned) => Len(prompts) >= 1
    /\ Returned => (ri > 1 /\ call.n > 0 /\ call.cut)

\* C2 witness: the empty message list with window 0 returned one turn.
C2_Witness ==
    Returned /\ messages = <<>> /\ window = 0 /\ Len(prompts) = 1 /\ ri = 2

\* C3: at every truncation decision the recorded cost of every surviving
\* turn is estimateTokens of its current texts + 768 per image it holds.
C3_RecordedCostIsEstimate ==
    (pc = "truncate" /\ window >= 0) =>
        \A i \in DOMAIN prompts : prompts[i].tokens = Cost(prompts[i])

\* the costs of the segmented turns, none of which is negative, sum to at
\* most window
SegmentedFit ==
    window >= 0 /\ SumCost(segmented, 1) <= window

\* C4: if the costs of the segmented turns sum to at most window, nothing
\* is removed or changed and the text returned is the renderings, with
\* cutAfterMarker = true, of the segmented turns in order.
C4_FitRendersAllTurns ==
    segmented # <<>> =>
        \/ /\ prompts = segmented
           /\ removed = <<>>
           /\ Returned => ret.text = ConcatRender(segmented, 1)
        \/ ~SegmentedFit

\* C4 witness: two turns of positive cost fit the window and were returned.
C4_Witness ==
    /\ Returned
    /\ Len(segmented) = 2
    /\ SumCost(segmented, 1) <= window
    /\ Cost(segmented[1]) > 0
    /\ ret.text = ConcatRender(segmented, 1)
    /\ ret.text # ""

\* C5: when the turns' costs sum to more than window and the oldest turn
\* holds more than one image, the next step removes the first image of the
\* oldest turn, lowers its cost by 768 and removes no turn.
C5_ImageRemovedBeforeTurn ==
    [][(/\ pc = "truncate"
        /\ window >= 0
        /\ SumCost(prompts, 1) > window
        /\ Len(prompts[1].Images) > 1)
       => (/\ prompts' = [prompts EXCEPT ![1].Images = Tail(@),
                                         ![1].tokens = @ - ImageTokens]
           /\ removed' = removed)]_vars

\* C6: turns [A, B, ...] over window, A with a non-empty instruction and at
\* most one image, B with none: the next step drops A, B takes A's
\* instruction and the cost estimated with it, and the loop ends.
C6_InstructionCarriedForward ==
    [][(/\ pc = "truncate"
        /\ window >= 0
        /\ Len(prompts) >= 2
        /\ prompts[1].System # ""
        /\ prompts[2].System = ""
        /\ Len(prompts[1].Images) <= 1
        /\ SumCost(prompts, 1) > window)
       => (LET q == [prompts[2] EXCEPT !.System = prompts[1].System]
           IN  /\ prompts' = [Tail(prompts) EXCEPT ![1] = [q EXCEPT !.tokens = Cost(q)]]
               /\ pc' = "render")]_vars

\* a turn with a non-empty instruction has been removed
InstructionTurnRemoved ==
    removed # <<>> /\ Last(removed).System # ""

\* C7: every removed turn but the last removed one had an empty
\* instruction, and once a turn with a non-empty instruction is removed no
\* turn and no image is removed any more.
C7_OneInstructionTurnRemoved ==
    /\ [](\A i \in 1..(Len(removed) - 1) : removed[i].System = "")
    /\ [][InstructionTurnRemoved => (prompts' = prompts /\ removed' = removed)]_vars

\* C7 witness: a turn without instruction, then one with an instruction were
\* removed, and the call returned.
C7_Witness ==
    /\ Returned
    /\ Len(removed) >= 2
    /\ InstructionTurnRemoved
    /\ removed[1].System = ""

ValidRoles ==
    {"system", "user", "assistant"}

\* C8 as stated: a message whose role is not one of the three strings makes
\* the call fail with no text and no call of Prompt.
C8_AnyOtherRoleFails ==
    (pc = "done" /\ window >= 0 /\ \E i \in DOMAIN messages : messages[i].Role \notin ValidRoles)
        => (ret.err # "" /\ ret.text = "" /\ call.n = 0)

\* C8: a message whose role, in lower case, is not one of system, user,
\* assistant makes the call fail with an invalid-role error and no text;
\* no token is estimated and nothing is rendered, in any state of the call.
C8_InvalidRoleFails ==
    (\E i \in DOMAIN messages : ToLower(messages[i].Role) \notin ValidRoles) =>
        /\ call.n = 0
        /\ sb = ""
        /\ pc \in {"start", "segment", "done"}
        /\ pc = "done" => (ret.err # "" /\ ret.text = "")

\* C8 witness: the second message had the role moderator and the call failed
\* after the first message was taken.
C8_Witness ==
    /\ pc = "done"
    /\ Len(messages) = 2
    /\ messages[1].Role = "user"
    /\ messages[2].Role = "moderator"
    /\ p.prompt
    /\ ret.err # ""
    /\ ret.text = ""

\* the user messages, and the turns that hold a user text
UserMessages ==
    {j \in DOMAIN messages : ToLower(messages[j].Role) = "user"}

UserTurns ==
    {t \in DOMAIN segmented : segmented[t].prompt}

\* the n-th element of a set of positions
Nth(S, n) ==
    CHOOSE j \in S : Cardinality({i \in S : i < j}) = n - 1

RECURSIVE ImagesBefore(_)
\* the images of the user messages before message j
ImagesBefore(j) ==
    IF j <= 1 THEN 0
    ELSE ImagesBefore(j - 1)
             + (IF j - 1 \in UserMessages THEN Len(messages[j - 1].Images) ELSE 0)

RECURSIVE ExpectedPlaceholders(_, _)
\* [img-from] ... [img-(from+count-1)], each after one space
ExpectedPlaceholders(from, count) ==
    IF count = 0 THEN ""
    ELSE " [img-" \o ToString(from) \o "]" \o ExpectedPlaceholders(from + 1, count - 1)

\* segmentation has just ended: the final prompt is added and no estimate
\* is made yet
SegmentationEnded ==
    pc = "estimate" /\ ei = 1

\* C9: after segmentation the k-th image of the user messages, counted from
\* 0 over the whole conversation, has id k, and the turn built from its
\* message has that message's text followed by the placeholders of its
\* images in order; a turn without user text holds no image.
C9_PlaceholderNumbering ==
    SegmentationEnded =>
        /\ Cardinality(UserTurns) = Cardinality(UserMessages)
        /\ \A n \in 1..Cardinality(UserMessages) :
               LET m == messages[Nth(UserMessages, n)]
                   t == segmented[Nth(UserTurns, n)]
                   b == ImagesBefore(Nth(UserMessages, n))
               IN  /\ t.Prompt = m.Content \o ExpectedPlaceholders(b, Len(m.Images))
                   /\ Len(t.Images) = Len(m.Images)
                   /\ \A k \in DOMAIN t.Images :
                          t.Images[k] = [ID |-> b + k - 1, Data |-> m.Images[k]]
        /\ \A t \in DOMAIN segmented : ~segmented[t].prompt => segmented[t].Images = <<>>

\* C9 witness: two user messages with one image each gave [img-0] and
\* [img-1].
C9_Witness ==
    /\ Len(segmented) = 2
    /\ segmented[1].Prompt = "u1 [img-0]"
    /\ segmented[2].Prompt = "u2 [img-1]"
    /\ segmented[2].Images = <<[ID |-> 1, Data |-> "d"]>>

\* text t occurs in text s
Contains(s, t) ==
    \E i \in 0..(Len(s) - Len(t)) : SubSeq(s, i + 1, i + Len(t)) = t

\* an action node with a field whose first identifier is Response
IsMarker(node) ==
    /\ node.type = "Action"
    /\ \E c \in DOMAIN node.Cmds : \E a \in DOMAIN node.Cmds[c] :
           /\ node.Cmds[c][a].type = "Field"
           /\ node.Cmds[c][a].Ident # <<>>
           /\ node.Cmds[c][a].Ident[1] = "Response"

\* a reference to Response in the pipeline of a node
RefersToResponse(node) ==
    \E c \in DOMAIN node.Cmds : \E a \in DOMAIN node.Cmds[c] :
        /\ node.Cmds[c][a].type = "Field"
        /\ node.Cmds[c][a].Ident # <<>>
        /\ node.Cmds[c][a].Ident[1] = "Response"

\* a reference to Response anywhere in the template, nested lists included
HasResponseReference(nodes) ==
    \E i \in DOMAIN nodes :
        \/ RefersToResponse(nodes[i])
        \/ \E k \in DOMAIN nodes[i].List : RefersToResponse(nodes[i].List[k])

\* C10: the tree a call of Prompt executes, for either value of cut, has a
\* marker node; for a template with no reference to Response it is the
\* parsed tree with one marker node appended, and the text contains the
\* response; with a marker found at the top level and cut false it is the
\* parsed tree.
C10_MarkerInsertion ==
    call.n > 0 =>
        LET parsed == Parse(tmpl)
        IN  /\ \E i \in DOMAIN call.nodes : IsMarker(call.nodes[i])
            /\ ~HasResponseReference(parsed) =>
                   /\ Len(call.nodes) = Len(parsed) + 1
                   /\ SubSeq(call.nodes, 1, Len(parsed)) = parsed
                   /\ IsMarker(Last(call.nodes))
                   /\ Last(call.nodes) = Field("Response")
                   /\ Contains(call.out, call.response)
            /\ (~call.cut /\ \E i \in DOMAIN parsed : IsMarker(parsed[i])) =>
                   call.nodes = parsed

\* C10 witness: a template without a reference to Response was rendered with
\* cut true and a response that is not empty, which the text contains.
C10_Witness ==
    /\ call.n > 0
    /\ call.cut
    /\ ~HasResponseReference(Parse(tmpl))
    /\ call.response # ""
    /\ Contains(call.out, call.response)
    /\ call.out # call.response

\* the top-level positions whose node refers to Response, in its own
\* pipeline or in a list nested in it
ReferencePositions(nodes) ==
    {i \in DOMAIN nodes :
         \/ RefersToResponse(nodes[i])
         \/ \E k \in DOMAIN nodes[i].List : RefersToResponse(nodes[i].List[k])}

\* C11: for a template that refers to Response, the tree a call of Prompt
\* with cut true executes is the parsed tree up to and including the
\* top-level node of the first reference: nothing after it is kept and no
\* marker is appended.
C11_CutAfterFirstReference ==
    (call.n > 0 /\ call.cut /\ HasResponseReference(Parse(tmpl))) =>
        call.nodes = SubSeq(Parse(tmpl), 1, Min(ReferencePositions(Parse(tmpl))))

\* C12: the first turn is seeded with the system argument of the call, so
\* the turns do not depend on the model that is loaded.
C12_SeededWithArgument ==
    segmented # <<>> => segmented[1].System = system

\* what a message puts into a turn: its role as the switch of line 118
\* takes it, and its content, for a user message with the placeholders of
\* its images
MessageEntry(j) ==
    << ToLower(messages[j].Role),
       IF j \in UserMessages
       THEN messages[j].Content
                \o ExpectedPlaceholders(ImagesBefore(j), Len(messages[j].Images))
       ELSE messages[j].Content >>

\* what a turn holds, read as instruction, user text, output text
TurnEntries(t) ==
       (IF t.system THEN << <<"system", t.System>> >> ELSE << >>)
    \o (IF t.prompt THEN << <<"user", t.Prompt>> >> ELSE << >>)
    \o (IF t.response THEN << <<"assistant", t.Response>> >> ELSE << >>)

RECURSIVE ReadTurns(_, _)
\* the turns ps from turn k on, read in order
ReadTurns(ps, k) ==
    IF k > Len(ps) THEN << >> ELSE TurnEntries(ps[k]) \o ReadTurns(ps, k + 1)

\* C15: when segmentation has ended the turns, each read as instruction,
\* user text, output text, give the seeded instruction followed by the
\* messages in their order, each message once; a text that a turn does not
\* hold is empty, and only user turns hold images.
C15_SegmentationLosesNothing ==
    SegmentationEnded =>
        /\ prompts = segmented
        /\ ReadTurns(segmented, 1)
               = << <<"system", loadedSystem>> >>
                     \o [j \in 1..Len(messages) |-> MessageEntry(j)]
        /\ \A t \in DOMAIN segmented :
               /\ ~segmented[t].system => segmented[t].System = ""
               /\ ~segmented[t].prompt =>
                      segmented[t].Prompt = "" /\ segmented[t].Images = << >>
               /\ ~segmented[t].response => segmented[t].Response = ""

\* C15 witness: an assistant message followed by a user message gave two
\* turns, the first with the seeded instruction and the output text.
C15_Witness ==
    /\ SegmentationEnded
    /\ Len(messages) = 2
    /\ messages[1].Role = "assistant"
    /\ messages[2].Role = "user"
    /\ Len(segmented) = 2
    /\ segmented[1].system /\ segmented[1].response /\ ~segmented[1].prompt
    /\ segmented[2].Prompt = messages[2].Content /\ ~segmented[2].system

\* the turns removed from the front so far
Dropped ==
    Len(segmented) - Len(prompts)

\* seq t is the end of seq s
IsSuffix(t, s) ==
    /\ Len(t) <= Len(s)
    /\ t = SubSeq(s, Len(s) - Len(t) + 1, Len(s))

\* C16: from the end of segmentation on, the surviving turns are the last
\* turns of the segmented ones in their order and the newest one is among
\* them; every surviving turn but the oldest is as segmented; the oldest
\* has the user text and output text it was segmented with, and its
\* images are the last ones of its segmented images; the removed turns
\* are the first ones.
C16_TruncationOnlyFromFront ==
    segmented # <<>> =>
        /\ Len(prompts) >= 1
        /\ Dropped >= 0
        /\ Len(removed) = Dropped
        /\ \A i \in 2..Len(prompts) : prompts[i] = segmented[Dropped + i]
        /\ prompts[1].Prompt = segmented[Dropped + 1].Prompt
        /\ prompts[1].Response = segmented[Dropped + 1].Response
        /\ IsSuffix(prompts[1].Images, segmented[Dropped + 1].Images)
        /\ \A i \in DOMAIN removed :
               /\ removed[i].Prompt = segmented[i].Prompt
               /\ removed[i].Response = segmented[i].Response

\* C16 witness: an image was dropped from a turn with two images, which
\* was then removed, and the turn after it is the one left.
C16_Witness ==
    /\ pc = "done"
    /\ Len(segmented) = 2
    /\ Len(segmented[1].Images) = 2
    /\ Len(removed) = 1
    /\ removed[1].Images = << segmented[1].Images[2] >>
    /\ Len(prompts) = 1
    /\ prompts[1].Prompt = segmented[2].Prompt

\* C18: when the truncation loop has ended with no error and a removed
\* turn had an instruction that is not empty, the oldest surviving turn
\* has one: the one it was segmented with, or, when it had none, the one
\* of the turn removed last; and every turn, removed or surviving, has the
\* user text together with the output text it was segmented with.
C18_InstructionNotDiscarded ==
    (TruncationOver /\ segmented # <<>>) =>
        /\ (\E i \in DOMAIN removed : removed[i].System # "") =>
               /\ prompts[1].System # ""
               /\ IF segmented[Dropped + 1].System # ""
                  THEN prompts[1].System = segmented[Dropped + 1].System
                  ELSE prompts[1].System = Last(removed).System
        /\ \A i \in DOMAIN prompts :
               << prompts[i].prompt, prompts[i].Prompt,
                  prompts[i].response, prompts[i].Response >>
                   = << segmented[Dropped + i].prompt, segmented[Dropped + i].Prompt,
                        segmented[Dropped + i].response, segmented[Dropped + i].Response >>
        /\ \A i \in DOMAIN removed :
               << removed[i].prompt, removed[i].Prompt,
                  removed[i].response, removed[i].Response >>
                   = << segmented[i].prompt, segmented[i].Prompt,
                        segmented[i].response, segmented[i].Response >>

\* C18 witness: the turn with the instruction "base" was removed, the turn
\* after it was segmented with no instruction, and the text was returned
\* with "base" carried into that turn.
C18_Witness ==
    /\ Returned
    /\ removed # << >>
    /\ Last(removed).System = "base"
    /\ segmented[Dropped + 1].System = ""
    /\ segmented[Dropped + 1].prompt
    /\ prompts[1].System = "base"

\* the ordinals N of the placeholders [img-N] in a text
PlaceholderOrdinals(text) ==
    {n \in 0..(MaxMsgs * MaxImgs) : Contains(text, "[img-" \o ToString(n) \o "]")}

\* the ids of the images a turn holds
HeldIds(t) ==
    {t.Images[k].ID : k \in DOMAIN t.Images}

\* C19: from the end of segmentation on, in every surviving turn the
\* ordinals of the placeholders in the user text are the ids of the images
\* the turn holds.
C19_PlaceholdersMatchImages ==
    segmented # <<>> =>
        \A i \in DOMAIN prompts :
            PlaceholderOrdinals(prompts[i].Prompt) = HeldIds(prompts[i])

RECURSIVE TotalImages(_, _)
\* the images of the turns ps from turn k on
TotalImages(ps, k) ==
    IF k > Len(ps) THEN 0 ELSE Len(ps[k].Images) + TotalImages(ps, k + 1)

\* an iteration after which the loop goes on
LoopGoesOn ==
    pc = "truncate" /\ pc' = "truncate"

\* one image less in the oldest turn, or the oldest turn less
OneLess ==
    \/ /\ Len(prompts) > 1
       /\ Len(prompts') = Len(prompts) - 1
    \/ /\ Len(prompts') = Len(prompts)
       /\ Len(prompts'[1].Images) = Len(prompts[1].Images) - 1
       /\ TotalImages(prompts', 1) = TotalImages(prompts, 1) - 1

\* C17: the iterations of the truncation loop are never more than the
\* images plus the turns of the segmented list; every iteration after which
\* the loop goes on leaves one image less in the oldest turn or one turn
\* less, so images plus turns, which is never negative, gets smaller; and a
\* step out of the loop goes to the final render or returns an error.
C17_TruncationTerminates ==
    /\ [](iters <= TotalImages(segmented, 1) + Len(segmented))
    /\ [][LoopGoesOn => (iters' = iters + 1 /\ OneLess)]_vars
    /\ [][(pc = "truncate" /\ pc' # "truncate") =>
              (pc' = "render" \/ (pc' = "done" /\ ret'.err # ""))]_vars

\* C17 witness: the loop was left after four iterations, two of which
\* dropped an image and one of which removed a turn.
C17_Witness ==
    /\ pc = "render"
    /\ iters = 4
    /\ Len(removed) = 1
    /\ TotalImages(segmented, 1) = 4
    /\ TotalImages(prompts, 1) = 1

\* the template does not parse, or its execution with the texts of q and
\* cut false fails
TemplateFails(q) ==
    \/ ParseError(tmpl) # ""
    \/ ExecuteError(PromptTree(tmpl, FALSE), Vars(q.System, q.Prompt, q.Response)) # ""

\* the next estimate, of the estimation pass or of the carry-forward, is of
\* a turn the template fails on
EstimateFails ==
    \/ /\ pc = "estimate"
       /\ ei <= Len(prompts)
       /\ TemplateFails(prompts[ei])
    \/ /\ CanRemovePrompt
       /\ prompts[1].System # ""
       /\ prompts[2].System = ""
       /\ TemplateFails([prompts[2] EXCEPT !.System = prompts[1].System])

\* C13: when an error is recorded ChatPrompt is done and its text is empty;
\* a step with an estimate on which the template fails records an error;
\* the step that records an error renders nothing; and no step follows the
\* return.
C13_FailureAborts ==
    /\ [](ret.err # "" => (pc = "done" /\ ret.text = ""))
    /\ [][EstimateFails => (ret'.err # "" /\ pc' = "done")]_vars
    /\ [][(ret.err = "" /\ ret'.err # "") => (sb' = sb /\ ri' = ri)]_vars
    /\ [][pc # "done"]_vars

\* C13 witness: the turn with the instruction was removed and the estimate
\* of the next turn with the instruction carried into it failed in the
\* template; the error is returned with no text.
C13_Witness ==
    /\ pc = "done"
    /\ removed # << >>
    /\ tmpl = "slice"
    /\ ret = [text |-> "", err |-> "template: error calling slice: index out of range"]

\* the arguments of a call besides tmpl
Arguments(c) ==
    << c.system, c.prompt, c.response, c.cut >>

\* C14: of the calls of Prompt made so far, in whatever order and with
\* whatever arguments the earlier ones were made, any two with the same
\* arguments executed the same tree and returned the same text.
C14_RenderIsPure ==
    \A a \in calls : \A b \in calls :
        Arguments(a) = Arguments(b) => (a.nodes = b.nodes /\ a.out = b.out)

\* C14 witness: a call with cut false, then a call with cut true that cut
\* its tree, then the first call again, which returned the text with what
\* follows the marker.
C14_Witness ==
    /\ tmpl = "full"
    /\ pc = "idle"
    /\ call.n = 3
    /\ ~call.cut
    /\ call.out = "S:s U:u A:a;"
    /\ \E a \in calls : a.n = 1 /\ Arguments(a) = Arguments(call)
    /\ \E b \in calls : b.n = 2 /\ b.cut /\ Len(b.nodes) < Len(call.nodes)

====
